---- MODULE Spec2Model ----
(***************************************************************************)
(* The Ono selfie pipeline: skill/scripts/ono-selfie.ts (generateImage,    *)
(* sendViaOpenClaw, generateAndSend, main) and ono-selfie.sh.              *)
(* One invocation ("run") is one process; runs share only the clock and    *)
(* the files under /tmp.                                                   *)
(***************************************************************************)
EXTENDS Integers, Sequences, FiniteSets, TLC

\* ------------------------------------------------------------------ bounds

\* How many times the model lets the clock advance.
MaxTicks == 2

\* date +%s counts seconds, Date.now() milliseconds.
MsPerSec == 1000

\* The concurrent invocations.
Runs == {"r1", "r2"}

\* ------------------------------------------------------------ input domains

\* GEMINI_API_KEY: not in the environment, set to the empty string, or set.
ApiKeys == {"UNSET", "", "key"}

Jpeg == <<"image", "jpeg">>
Png == <<"image", "png">>

\* An invocation: which script, who calls it, and its arguments.
\* main passes no useOpenClawCLI (default true); a caller importing
\* generateAndSend validates no arguments and may choose the HTTP transport.
Configs ==
  [script : {"sh"}, caller : {"main"}, apiKey : ApiKeys, argsOK : BOOLEAN,
   outputFormat : {"jpeg"}, useCLI : {TRUE}]
  \cup
  [script : {"ts"}, caller : {"main"}, apiKey : ApiKeys, argsOK : BOOLEAN,
   outputFormat : {"jpeg", "png"}, useCLI : {TRUE}]
  \cup
  [script : {"ts"}, caller : {"import"}, apiKey : ApiKeys, argsOK : {TRUE},
   outputFormat : {"jpeg", "png"}, useCLI : BOOLEAN]

NoCfg == [script |-> "none"]

\* What the image-generation endpoint may answer.
\*   net       "fail": no HTTP answer at all (fetch rejects, curl prints nothing)
\*   httpOk    the status is 2xx
\*   errorWord the body text contains the word "error"
\*   preds     the shape of the body's predictions list
\*   mime      predictions[0].mimeType, <<>> when absent
PredShapes == {"missing", "empty", "noB64", "emptyB64", "valid"}

Responses ==
  [net : {"ok"}, httpOk : BOOLEAN, errorWord : BOOLEAN, preds : PredShapes,
   mime : {<<>>, Jpeg, Png}]
  \cup
  [net : {"fail"}, httpOk : {FALSE}, errorWord : {FALSE}, preds : {"missing"},
   mime : {<<>>}]

NoResp == [net |-> "none"]
NoMedia == [scheme |-> "none"]
NoFile == [stamp |-> -1, ext |-> "none"]
NotSent == [via |-> "none"]

VARIABLES
  now,        \* the system clock, in milliseconds
  fs,         \* the files under /tmp: path -> [writer, state, bytes]
  pc,         \* each run's position
  cfg,        \* each run's invocation
  genPosts,   \* each run's number of POSTs to the generation endpoint
  resp,       \* the generation response each run received
  media,      \* imageUrl (ts) / BASE64_IMAGE (sh)
  clock,      \* the value each run read from the clock to name its file
  tempFile,   \* tempFile / TEMP_FILE
  sent,       \* what the dispatch transport was started with
  dispResult, \* how the dispatch ended
  exit        \* exit status, or how generateAndSend's promise settled


\* ------------------------------------------------- ono-selfie.sh: the prompt

\* Text is a sequence of one-character strings.
\* grep -E "outfit|wearing|clothes|dress|suit|fashion|full-body|mirror"
MirrorPattern ==
  { <<"o", "u", "t", "f", "i", "t">>,
    <<"w", "e", "a", "r", "i", "n", "g">>,
    <<"c", "l", "o", "t", "h", "e", "s">>,
    <<"d", "r", "e", "s", "s">>,
    <<"s", "u", "i", "t">>,
    <<"f", "a", "s", "h", "i", "o", "n">>,
    <<"f", "u", "l", "l", "-", "b", "o", "d", "y">>,
    <<"m", "i", "r", "r", "o", "r">> }

\* grep -E "cafe|restaurant|beach|park|city|close-up|portrait|face|eyes|smile"
DirectPattern ==
  { <<"c", "a", "f", "e">>,
    <<"r", "e", "s", "t", "a", "u", "r", "a", "n", "t">>,
    <<"b", "e", "a", "c", "h">>,
    <<"p", "a", "r", "k">>,
    <<"c", "i", "t", "y">>,
    <<"c", "l", "o", "s", "e", "-", "u", "p">>,
    <<"p", "o", "r", "t", "r", "a", "i", "t">>,
    <<"f", "a", "c", "e">>,
    <<"e", "y", "e", "s">>,
    <<"s", "m", "i", "l", "e">> }

\* BASE_DESCRIPTION="a young woman with long dark hair"
BASE_DESCRIPTION ==
  <<"a", " ", "y", "o", "u", "n", "g", " ", "w", "o", "m", "a", "n", " ",
    "w", "i", "t", "h", " ", "l", "o", "n", "g", " ", "d", "a", "r", "k",
    " ", "h", "a", "i", "r">>

\* the direct template up to ${BASE_DESCRIPTION}, up to $USER_CONTEXT, and its end
DirectHead ==
  <<"a", " ", "p", "h", "o", "t", "o", "r", "e", "a", "l", "i", "s", "t",
    "i", "c", " ", "c", "l", "o", "s", "e", "-", "u", "p", " ", "s", "e",
    "l", "f", "i", "e", " ", "o", "f", " ">>

DirectAt ==
  <<" ", "a", "t", " ">>

DirectTail ==
  <<",", " ", "d", "i", "r", "e", "c", "t", " ", "e", "y", "e", " ", "c",
    "o", "n", "t", "a", "c", "t", " ", "w", "i", "t", "h", " ", "t", "h",
    "e", " ", "c", "a", "m", "e", "r", "a", ",", " ", "l", "o", "o", "k",
    "i", "n", "g", " ", "s", "t", "r", "a", "i", "g", "h", "t", " ", "i",
    "n", "t", "o", " ", "t", "h", "e", " ", "l", "e", "n", "s", ",", " ",
    "e", "y", "e", "s", " ", "c", "e", "n", "t", "e", "r", "e", "d", " ",
    "a", "n", "d", " ", "c", "l", "e", "a", "r", "l", "y", " ", "v", "i",
    "s", "i", "b", "l", "e", ",", " ", "p", "h", "o", "n", "e", " ", "h",
    "e", "l", "d", " ", "a", "t", " ", "a", "r", "m", "'", "s", " ", "l",
    "e", "n", "g", "t", "h", ",", " ", "f", "a", "c", "e", " ", "f", "u",
    "l", "l", "y", " ", "v", "i", "s", "i", "b", "l", "e", ",", " ", "8",
    "k", ",", " ", "h", "i", "g", "h", "l", "y", " ", "d", "e", "t", "a",
    "i", "l", "e", "d">>

\* the mirror template up to ${BASE_DESCRIPTION}, up to ${USER_CONTEXT}, and its end
MirrorHead ==
  <<"a", " ", "p", "h", "o", "t", "o", "r", "e", "a", "l", "i", "s", "t",
    "i", "c", " ", "m", "i", "r", "r", "o", "r", " ", "s", "e", "l", "f",
    "i", "e", " ", "o", "f", " ">>

MirrorComma ==
  <<",", " ">>

MirrorTail ==
  <<",", " ", "f", "u", "l", "l", " ", "b", "o", "d", "y", " ", "s", "h",
    "o", "t", ",", " ", "d", "e", "t", "a", "i", "l", "e", "d", " ", "b",
    "a", "c", "k", "g", "r", "o", "u", "n", "d", ",", " ", "8", "k", ",",
    " ", "h", "i", "g", "h", "l", "y", " ", "d", "e", "t", "a", "i", "l",
    "e", "d">>


\* the upper-case letters and their lower-case forms (grep -i)
UpperCase == <<"A", "B", "C", "D", "E", "F", "G", "H", "I", "J", "K", "L", "M",
               "N", "O", "P", "Q", "R", "S", "T", "U", "V", "W", "X", "Y", "Z">>
LowerCase == <<"a", "b", "c", "d", "e", "f", "g", "h", "i", "j", "k", "l", "m",
               "n", "o", "p", "q", "r", "s", "t", "u", "v", "w", "x", "y", "z">>

ToLower(ch) ==
  IF \E i \in DOMAIN UpperCase : UpperCase[i] = ch
    THEN LowerCase[CHOOSE i \in DOMAIN UpperCase : UpperCase[i] = ch]
    ELSE ch

LowerText(t) == [i \in DOMAIN t |-> ToLower(t[i])]

\* kw occurs in t as a substring
Contains(t, kw) ==
  \E i \in 1..(Len(t) - Len(kw) + 1) : SubSeq(t, i, i + Len(kw) - 1) = kw

\* echo "$USER_CONTEXT" | grep -qiE "k1|k2|..."
GrepQiE(t, pattern) ==
  \E kw \in pattern : Contains(LowerText(t), LowerText(kw))

\* the auto-detected mode
AutoMode(t) ==
  IF GrepQiE(t, MirrorPattern) THEN "mirror"
  ELSE IF GrepQiE(t, DirectPattern) THEN "direct"
  ELSE "mirror"

\* GEN_PROMPT for a mode and a user context
BuildPrompt(m, t) ==
  IF m = "direct"
    THEN DirectHead \o BASE_DESCRIPTION \o DirectAt \o t \o DirectTail
    ELSE MirrorHead \o BASE_DESCRIPTION \o MirrorComma \o t \o MirrorTail

\* The pieces user contexts are put together from.
Fragments ==
  { <<"w", "e", "a", "r", "i", "n", "g", " ", "a", " ", "s", "a", "n", "t", "a", " ", "h", "a", "t">>,
    <<"a", " ", "c", "o", "z", "y", " ", "c", "a", "f", "e", " ", "w", "i", "t", "h", " ", "w", "a", "r", "m", " ", "l", "i", "g", "h", "t", "i", "n", "g">>,
    <<"r", "e", "f", "l", "e", "c", "t", "i", "o", "n">>,
    <<"C", "a", "f", "e">>,
    <<"D", "R", "E", "S", "S">>,
    <<"o", "u", "t">>,
    <<"f", "i", "t">>,
    <<" ", "i", "n", " ", "a", " ">>,
    <<"s", "m", "i", "l", "e">>,
    <<"o", "n", " ", "t", "h", "e", " ", "m", "o", "o", "n">> }

\* How many pieces a user context has at most.
MaxFrags == 2

RECURSIVE Concat(_)
Concat(ps) == IF ps = <<>> THEN <<>> ELSE Head(ps) \o Concat(Tail(ps))

\* The user contexts: the script rejects an empty one before it gets here.
Contexts ==
  { Concat(ps) : ps \in UNION { [1..n -> Fragments] : n \in 1..MaxFrags } }

\* The third argument: auto when absent, else whatever the caller wrote.
ModeArgs == {"auto", "mirror", "direct", "selfie"}

VARIABLES
  USER_CONTEXT, \* $1
  modeArg,      \* $3, defaulted
  MODE,         \* the mode in force
  GEN_PROMPT,   \* the prompt sent to the endpoint
  step          \* the prompt script's position

promptVars == <<USER_CONTEXT, modeArg, MODE, GEN_PROMPT, step>>

pipeVars == <<now, fs, pc, cfg, genPosts, resp, media, clock, tempFile, sent, dispResult, exit>>

vars == <<pipeVars, promptVars>>

\* No prompt is being built.
PromptIdle ==
  /\ USER_CONTEXT = <<>>
  /\ modeArg = ""
  /\ MODE = ""
  /\ GEN_PROMPT = <<>>
  /\ step = "off"

\* if [ "$MODE" == "auto" ]; then ... fi
SelectMode ==
  /\ step = "mode"
  /\ MODE' = IF MODE = "auto" THEN AutoMode(USER_CONTEXT) ELSE MODE
  /\ step' = "prompt"
  /\ UNCHANGED <<USER_CONTEXT, modeArg, GEN_PROMPT, pipeVars>>

\* if [ "$MODE" == "direct" ]; then GEN_PROMPT=... else GEN_PROMPT=... fi
ConstructPrompt ==
  /\ step = "prompt"
  /\ GEN_PROMPT' = BuildPrompt(MODE, USER_CONTEXT)
  /\ step' = "request"
  /\ UNCHANGED <<USER_CONTEXT, modeArg, MODE, pipeVars>>

\* ------------------------------------------------------------------ helpers

\* KeyMissing testing only for an absent variable (apiKey === undefined)
KeyMissingUnsetOnly(k) == k = "UNSET"

\* if (!apiKey) / [ -z "$GEMINI_API_KEY" ]
KeyMissing(k) == k = "UNSET" \/ k = ""

\* input.output_format === "png" ? "image/png" : "image/jpeg"
MimeOfFormat(f) == IF f = "png" THEN Png ELSE Jpeg

\* data.predictions[0].bytesBase64Encoded, interpolated into the template string
B64Text(shape) ==
  CASE shape = "noB64" -> "undefined"
    [] shape = "emptyB64" -> ""
    [] OTHER -> "valid"

\* `data:${mimeType};base64,${base64Image}`
DataUrl(mime, b64) == [scheme |-> "data", mime |-> mime, b64 |-> b64]

\* mediaContent.startsWith("data:")
IsDataUrl(m) == m.scheme = "data"

\* mediaContent.substring(indexOf("/") + 1, indexOf(";"))
ExtOf(m) == m.mime[2]

\* the bytes a base64 decode of the text yields
Base64Decode(b64) ==
  CASE b64 = "valid" -> "image"
    [] b64 = "" -> "empty"
    [] OTHER -> "garbage"

\* Date.now()
DateNow == now

\* date +%s
DateSeconds == now \div MsPerSec

\* TsTempFile naming the file by the second instead of the millisecond
TsTempFileSeconds(m) == [stamp |-> DateNow \div MsPerSec, ext |-> ExtOf(m)]

\* `/tmp/ono-selfie-${Date.now()}.${ext}`
TsTempFile(m) == [stamp |-> DateNow, ext |-> ExtOf(m)]

\* "/tmp/ono-selfie-$(date +%s).jpeg"
ShTempFile == [stamp |-> DateSeconds, ext |-> "jpeg"]

\* generateImage's checks of the response: TRUE when it throws
TsGenFails(rs) ==
  \/ rs.net = "fail"
  \/ ~rs.httpOk
  \/ rs.preds \in {"missing", "empty"}

\* jq -r '.predictions[0].bytesBase64Encoded'
JqB64(rs) ==
  CASE rs.net = "fail" -> ""
    [] rs.preds \in {"missing", "empty", "noB64"} -> "null"
    [] rs.preds = "emptyB64" -> ""
    [] OTHER -> "valid"

\* ShGenFails without the test for jq's "null"
ShGenFailsNoNull(rs) ==
  \/ rs.net = "ok" /\ rs.errorWord
  \/ JqB64(rs) = ""

\* ono-selfie.sh's checks of the response: TRUE when it exits 1
ShGenFails(rs) ==
  \/ rs.net = "ok" /\ rs.errorWord
  \/ JqB64(rs) = "null"
  \/ JqB64(rs) = ""

\* how a failure leaves the invocation: exit(1), or the promise rejects
FailExit(c) == IF c.caller = "import" THEN "rejected" ELSE "1"

\* ------------------------------------------------------------------ actions

PipelineIdle ==
  /\ now = 0
  /\ fs = <<>>
  /\ pc = [r \in Runs |-> "idle"]
  /\ cfg = [r \in Runs |-> NoCfg]
  /\ genPosts = [r \in Runs |-> 0]
  /\ resp = [r \in Runs |-> NoResp]
  /\ media = [r \in Runs |-> NoMedia]
  /\ clock = [r \in Runs |-> -1]
  /\ tempFile = [r \in Runs |-> NoFile]
  /\ sent = [r \in Runs |-> NotSent]
  /\ dispResult = [r \in Runs |-> "none"]
  /\ exit = [r \in Runs |-> "none"]

Init == PipelineIdle /\ PromptIdle

\* The advances the clock has made: whole seconds plus single milliseconds.
TicksTaken == (now \div MsPerSec) + (now % MsPerSec)

\* The clock advances by a millisecond or by a second.
Tick(d) ==
  /\ TicksTaken < MaxTicks
  /\ now' = now + d
  /\ UNCHANGED <<fs, pc, cfg, genPosts, resp, media, clock, tempFile, sent, dispResult, exit, promptVars>>

\* The invocation starts: argument and key checks, then the POST is issued.
Start(r, c) ==
  /\ pc[r] = "idle"
  /\ cfg' = [cfg EXCEPT ![r] = c]
  /\ IF (c.caller = "main" /\ ~c.argsOK) \/ KeyMissing(c.apiKey)
       THEN /\ pc' = [pc EXCEPT ![r] = "done"]
            /\ exit' = [exit EXCEPT ![r] = FailExit(c)]
            /\ UNCHANGED genPosts
       ELSE /\ pc' = [pc EXCEPT ![r] = "gen_wait"]
            /\ genPosts' = [genPosts EXCEPT ![r] = @ + 1]
            /\ UNCHANGED exit
  /\ UNCHANGED <<now, fs, resp, media, clock, tempFile, sent, dispResult, promptVars>>

\* generateImage after the fetch, up to the temp file's name in sendViaOpenClaw
TsGenResponse(r, rs) ==
  /\ pc[r] = "gen_wait"
  /\ cfg[r].script = "ts"
  /\ resp' = [resp EXCEPT ![r] = rs]
  /\ IF TsGenFails(rs)
       THEN /\ pc' = [pc EXCEPT ![r] = "done"]
            /\ exit' = [exit EXCEPT ![r] = FailExit(cfg[r])]
            /\ UNCHANGED <<media, clock, tempFile>>
       ELSE LET mime == IF rs.mime # <<>> THEN rs.mime
                        ELSE MimeOfFormat(cfg[r].outputFormat)
                m == DataUrl(mime, B64Text(rs.preds))
            IN /\ media' = [media EXCEPT ![r] = m]
               /\ IF IsDataUrl(m)
                    THEN /\ clock' = [clock EXCEPT ![r] = DateNow]
                         /\ tempFile' = [tempFile EXCEPT ![r] = TsTempFile(m)]
                         /\ pc' = [pc EXCEPT ![r] = "write_open"]
                    ELSE /\ UNCHANGED <<clock, tempFile>>
                         /\ pc' = [pc EXCEPT ![r] = "dispatch"]
               /\ UNCHANGED exit
  /\ UNCHANGED <<now, fs, cfg, genPosts, sent, dispResult, promptVars>>

\* ShGenResponse repeating the curl POST when the response is rejected
ShGenResponseRetry(r, rs) ==
  /\ pc[r] = "gen_wait"
  /\ cfg[r].script = "sh"
  /\ resp' = [resp EXCEPT ![r] = rs]
  /\ IF ShGenFails(rs)
       THEN /\ genPosts' = [genPosts EXCEPT ![r] = @ + 1]
            /\ UNCHANGED <<pc, exit, media, clock, tempFile>>
       ELSE /\ media' = [media EXCEPT ![r] = [scheme |-> "b64", mime |-> Jpeg, b64 |-> JqB64(rs)]]
            /\ clock' = [clock EXCEPT ![r] = DateSeconds]
            /\ tempFile' = [tempFile EXCEPT ![r] = ShTempFile]
            /\ pc' = [pc EXCEPT ![r] = "write_open"]
            /\ UNCHANGED <<exit, genPosts>>
  /\ UNCHANGED <<now, fs, cfg, sent, dispResult, promptVars>>

\* ono-selfie.sh after curl, up to TEMP_FILE
ShGenResponse(r, rs) ==
  /\ pc[r] = "gen_wait"
  /\ cfg[r].script = "sh"
  /\ resp' = [resp EXCEPT ![r] = rs]
  /\ IF ShGenFails(rs)
       THEN /\ pc' = [pc EXCEPT ![r] = "done"]
            /\ exit' = [exit EXCEPT ![r] = "1"]
            /\ UNCHANGED <<media, clock, tempFile>>
       ELSE /\ media' = [media EXCEPT ![r] = [scheme |-> "b64", mime |-> Jpeg, b64 |-> JqB64(rs)]]
            /\ clock' = [clock EXCEPT ![r] = DateSeconds]
            /\ tempFile' = [tempFile EXCEPT ![r] = ShTempFile]
            /\ pc' = [pc EXCEPT ![r] = "write_open"]
            /\ UNCHANGED exit
  /\ UNCHANGED <<now, fs, cfg, genPosts, sent, dispResult, promptVars>>

\* fs.writeFileSync / "> $TEMP_FILE": the file is created or truncated
WriteOpen(r) ==
  /\ pc[r] = "write_open"
  /\ fs' = (tempFile[r] :> [writer |-> r, state |-> "open", bytes |-> "empty"]) @@ fs
  /\ pc' = [pc EXCEPT ![r] = "write_data"]
  /\ UNCHANGED <<now, cfg, genPosts, resp, media, clock, tempFile, sent, dispResult, exit, promptVars>>

\* the decoded bytes are written and the file is closed
WriteData(r) ==
  /\ pc[r] = "write_data"
  /\ fs' = (tempFile[r] :> [writer |-> r, state |-> "closed",
                            bytes |-> Base64Decode(media[r].b64)]) @@ fs
  /\ pc' = [pc EXCEPT ![r] = "dispatch"]
  /\ UNCHANGED <<now, cfg, genPosts, resp, media, clock, tempFile, sent, dispResult, exit, promptVars>>

\* DispatchStart putting mediaArg, not mediaContent, into the HTTP body
DispatchStartHttpPath(r) ==
  /\ pc[r] = "dispatch"
  /\ sent' = [sent EXCEPT ![r] =
       [via |-> IF cfg[r].useCLI THEN "cli" ELSE "http",
        arg |-> IF tempFile[r] # NoFile THEN tempFile[r] ELSE media[r],
        file |-> IF cfg[r].useCLI /\ tempFile[r] # NoFile
                   THEN fs[tempFile[r]] ELSE NoMedia]]
  /\ pc' = [pc EXCEPT ![r] = "send_wait"]
  /\ UNCHANGED <<now, fs, cfg, genPosts, resp, media, clock, tempFile, dispResult, exit, promptVars>>

\* DispatchStart not waiting for the write to finish
DispatchStartEarly(r) ==
  /\ pc[r] \in {"write_data", "dispatch"}
  /\ sent' = [sent EXCEPT ![r] =
       IF cfg[r].useCLI
         THEN [via |-> "cli",
               arg |-> IF tempFile[r] # NoFile THEN tempFile[r] ELSE media[r],
               file |-> IF tempFile[r] # NoFile THEN fs[tempFile[r]] ELSE NoMedia]
         ELSE [via |-> "http", arg |-> media[r], file |-> NoMedia]]
  /\ pc' = [pc EXCEPT ![r] = "send_wait"]
  /\ UNCHANGED <<now, fs, cfg, genPosts, resp, media, clock, tempFile, dispResult, exit, promptVars>>

\* execAsync(cmd) / fetch(`${gatewayUrl}/message`) / openclaw message send
DispatchStart(r) ==
  /\ pc[r] = "dispatch"
  /\ sent' = [sent EXCEPT ![r] =
       IF cfg[r].useCLI
         THEN [via |-> "cli",
               arg |-> IF tempFile[r] # NoFile THEN tempFile[r] ELSE media[r],
               file |-> IF tempFile[r] # NoFile THEN fs[tempFile[r]] ELSE NoMedia]
         ELSE [via |-> "http", arg |-> media[r], file |-> NoMedia]]
  /\ pc' = [pc EXCEPT ![r] = "send_wait"]
  /\ UNCHANGED <<now, fs, cfg, genPosts, resp, media, clock, tempFile, dispResult, exit, promptVars>>

\* the transport ends: the CLI's exit status, or the gateway's HTTP status
DispatchDone(r, ok) ==
  /\ pc[r] = "send_wait"
  /\ dispResult' = [dispResult EXCEPT ![r] = IF ok THEN "ok" ELSE "fail"]
  /\ pc' = [pc EXCEPT ![r] = "done"]
  /\ exit' = [exit EXCEPT ![r] =
       IF cfg[r].script = "sh" THEN "0"
       ELSE IF ~ok THEN FailExit(cfg[r])
       ELSE IF cfg[r].caller = "import" THEN "resolved" ELSE "0"]
  /\ UNCHANGED <<now, fs, cfg, genPosts, resp, media, clock, tempFile, sent, promptVars>>

\* Every step the runs of R can take, with invocations drawn from C and
\* generation responses from RS.
Step(R, C, RS) ==
  \/ \E d \in {1, MsPerSec} : Tick(d)
  \/ \E r \in R, c \in C : Start(r, c)
  \/ \E r \in R, rs \in RS : TsGenResponse(r, rs)
  \/ \E r \in R, rs \in RS : ShGenResponse(r, rs)
  \/ \E r \in R : WriteOpen(r)
  \/ \E r \in R : WriteData(r)
  \/ \E r \in R : DispatchStart(r)
  \/ \E r \in R, ok \in BOOLEAN : DispatchDone(r, ok)

\* One invocation, every argument combination and every response.
Next == Step({"r1"}, Configs, Responses)

Spec == Init /\ [][Next]_vars

\* Two concurrent invocations that pass validation and get an image back.
ConcConfigs ==
  {c \in Configs : c.apiKey = "key" /\ c.argsOK /\ c.caller = "main"}

ConcResponses ==
  {rs \in Responses : rs.net = "ok" /\ rs.httpOk /\ ~rs.errorWord
                       /\ rs.preds = "valid" /\ rs.mime = <<>>}

ConcNext == Step(Runs, ConcConfigs, ConcResponses)

SpecConc == Init /\ [][ConcNext]_vars

\* The media a caller of sendViaOpenClaw may pass: a data URL, a string
\* starting with "DATA:" in capitals, a remote URL, or a local path.
MediaValues ==
  { DataUrl(Jpeg, "valid"), DataUrl(Png, "valid"), DataUrl(Jpeg, ""),
    [scheme |-> "DATA", mime |-> Jpeg, b64 |-> "valid"],
    [scheme |-> "https"],
    [scheme |-> "path"] }

\* A caller importing sendViaOpenClaw and calling it with its own message.
SendCalls ==
  [script : {"ts"}, caller : {"import"}, entry : {"sendViaOpenClaw"},
   useCLI : BOOLEAN, media : MediaValues]

\* sendViaOpenClaw called directly, up to the temp file's name
SendStart(r, c) ==
  /\ pc[r] = "idle"
  /\ cfg' = [cfg EXCEPT ![r] = c]
  /\ media' = [media EXCEPT ![r] = c.media]
  /\ IF IsDataUrl(c.media)
       THEN /\ clock' = [clock EXCEPT ![r] = DateNow]
            /\ tempFile' = [tempFile EXCEPT ![r] = TsTempFile(c.media)]
            /\ pc' = [pc EXCEPT ![r] = "write_open"]
       ELSE /\ UNCHANGED <<clock, tempFile>>
            /\ pc' = [pc EXCEPT ![r] = "dispatch"]
  /\ UNCHANGED <<now, fs, genPosts, resp, sent, dispResult, exit, promptVars>>

\* One invocation: a pipeline run, or a direct call of sendViaOpenClaw.
SendNext ==
  \/ Next
  \/ \E c \in SendCalls : SendStart("r1", c)

SpecSend == Init /\ [][SendNext]_vars

\* The shell script's mode selection and prompt construction, for every user
\* context and mode argument.
InitPrompt ==
  /\ PipelineIdle
  /\ USER_CONTEXT \in Contexts
  /\ modeArg \in ModeArgs
  /\ MODE = modeArg
  /\ GEN_PROMPT = <<>>
  /\ step = "mode"

NextPrompt == SelectMode \/ ConstructPrompt

SpecPrompt == InitPrompt /\ [][NextPrompt]_vars

\* ------------------------------------------------------------------- claims

\* the files run r has created or written
FilesOf(r) == {p \in DOMAIN fs : fs[p].writer = r}

\* run r wrote no temp file and started no dispatch
Untouched(r) == FilesOf(r) = {} /\ sent[r] = NotSent

\* run r ended in failure: exit status 1, or a rejected promise
Failed(r) == pc[r] = "done" /\ exit[r] \in {"1", "rejected"}

RequestFailed(r) ==
  /\ resp[r] # NoResp
  /\ \/ resp[r].net = "fail"
     \/ ~resp[r].httpOk
     \/ resp[r].preds # "valid"

\* C2: a finished process whose request stage or dispatch stage failed has
\* exit status 1; exit status 0 means that both succeeded.
C2_ExitOneOnFailure ==
  \A r \in Runs :
    (pc[r] = "done" /\ cfg[r].caller = "main") =>
      /\ (RequestFailed(r) \/ dispResult[r] = "fail") => exit[r] = "1"
      /\ exit[r] = "0" => (~RequestFailed(r) /\ dispResult[r] = "ok")

\* C3: after a response whose first prediction has a missing or empty
\* bytesBase64Encoded, the run has no data URL, wrote no temp file and
\* started no dispatch.
C3_NoPayloadNoDispatch ==
  \A r \in Runs :
    (resp[r] # NoResp /\ resp[r].net = "ok"
       /\ resp[r].preds \in {"noB64", "emptyB64"}) =>
      media[r] = NoMedia /\ Untouched(r)

\* C4: after a response with a non-success HTTP status, whatever its body,
\* the run decoded nothing, wrote no temp file and started no dispatch.
C4_HttpErrorNoDispatch ==
  \A r \in Runs :
    (resp[r] # NoResp /\ resp[r].net = "ok" /\ ~resp[r].httpOk) =>
      media[r] = NoMedia /\ Untouched(r)

\* C5: a run started with GEMINI_API_KEY unset or empty has ended in failure
\* without a generation request, a temp file or a dispatch, whatever its
\* other arguments.
C5_NoKeyNoRequest ==
  \A r \in Runs :
    (cfg[r] # NoCfg /\ cfg[r].apiKey \in {"UNSET", ""}) =>
      Failed(r) /\ genPosts[r] = 0 /\ resp[r] = NoResp /\ Untouched(r)

\* C5 witness: a run with the key set to the empty string has exited 1.
C5_Witness ==
  \E r \in Runs :
    cfg[r] # NoCfg /\ cfg[r].apiKey = "" /\ cfg[r].argsOK /\ exit[r] = "1"

\* C6: after a response whose predictions list is missing or empty, the run
\* has ended in failure, wrote no temp file and started no dispatch.
C6_NoPredictionsNoFile ==
  \A r \in Runs :
    (resp[r] # NoResp /\ resp[r].net = "ok"
       /\ resp[r].preds \in {"missing", "empty"}) =>
      Failed(r) /\ Untouched(r)

\* C6 witness: a 2xx answer with an empty predictions list has been handled.
C6_Witness ==
  \E r \in Runs :
    /\ resp[r] # NoResp /\ resp[r].net = "ok" /\ resp[r].httpOk
    /\ ~resp[r].errorWord /\ resp[r].preds = "empty"
    /\ pc[r] = "done"

\* C9: no run issues more than one POST to the generation endpoint.
C9_AtMostOnePost == \A r \in Runs : genPosts[r] <= 1

\* C9 witness: a run whose one request was rejected has ended.
C9_Witness ==
  \E r \in Runs :
    genPosts[r] = 1 /\ resp[r] # NoResp /\ Failed(r) /\ sent[r] = NotSent

\* the extension of the temp file a run names
RunExt(r) == IF cfg[r].script = "sh" THEN "jpeg" ELSE media[r].mime[2]

\* two distinct runs that have both named their temp file
NamedPair(a, b) == a # b /\ tempFile[a] # NoFile /\ tempFile[b] # NoFile

\* C10 as stated: two runs name the same temp file exactly when they read the
\* same clock value.
C10_SameClockSamePath ==
  \A a, b \in Runs :
    NamedPair(a, b) => (tempFile[a] = tempFile[b] <=> clock[a] = clock[b])

\* C10 amended: two runs name the same temp file exactly when they read the
\* same clock value and use the same extension; and the CLI of a run is
\* started on a file last written by another run only if the two collide.
C10_CollisionRule ==
  \A a, b \in Runs :
    /\ NamedPair(a, b) =>
         (tempFile[a] = tempFile[b]
            <=> (clock[a] = clock[b] /\ RunExt(a) = RunExt(b)))
    /\ (a # b /\ sent[a].via = "cli" /\ sent[a].file.writer = b) =>
         (clock[a] = clock[b] /\ RunExt(a) = RunExt(b))

\* C10 witness: a run started the CLI on a file whose contents the other run
\* wrote, after having written it itself.
C10_Witness ==
  \E a, b \in Runs :
    /\ a # b
    /\ sent[a].via = "cli"
    /\ sent[a].file = [writer |-> b, state |-> "closed", bytes |-> "image"]
    /\ clock[a] = clock[b]

\* the keyword "reflection", which the stated rule lists among the mirror keywords
Reflection ==
  <<"r", "e", "f", "l", "e", "c", "t", "i", "o", "n">>

\* the stated rule: mirror keywords first, then direct keywords, else mirror
StatedMode(t) ==
  IF GrepQiE(t, MirrorPattern \cup {Reflection}) THEN "mirror"
  ELSE IF GrepQiE(t, DirectPattern) THEN "direct"
  ELSE "mirror"

\* C7: with mode = auto, the mode in force after selection is the stated
\* rule's, for every user context.
C7_AutoModeIsStatedRule ==
  (step # "mode" /\ modeArg = "auto") => MODE = StatedMode(USER_CONTEXT)

\* the stated templates
StatedMirrorHead ==
  <<"m", "a", "k", "e", " ", "a", " ", "p", "i", "c", " ", "o", "f", " ",
    "t", "h", "i", "s", " ", "p", "e", "r", "s", "o", "n", ",", " ", "b",
    "u", "t", " ">>

StatedMirrorTail ==
  <<".", " ", "t", "h", "e", " ", "p", "e", "r", "s", "o", "n", " ", "i",
    "s", " ", "t", "a", "k", "i", "n", "g", " ", "a", " ", "m", "i", "r",
    "r", "o", "r", " ", "s", "e", "l", "f", "i", "e">>

StatedDirectHead ==
  <<"a", " ", "c", "l", "o", "s", "e", "-", "u", "p", " ", "s", "e", "l",
    "f", "i", "e", " ", "t", "a", "k", "e", "n", " ", "b", "y", " ", "h",
    "e", "r", "s", "e", "l", "f", " ", "a", "t", " ">>

StatedDirectTail ==
  <<",", " ", "d", "i", "r", "e", "c", "t", " ", "e", "y", "e", " ", "c",
    "o", "n", "t", "a", "c", "t", " ", "w", "i", "t", "h", " ", "t", "h",
    "e", " ", "c", "a", "m", "e", "r", "a", ",", " ", "l", "o", "o", "k",
    "i", "n", "g", " ", "s", "t", "r", "a", "i", "g", "h", "t", " ", "i",
    "n", "t", "o", " ", "t", "h", "e", " ", "l", "e", "n", "s", ",", " ",
    "e", "y", "e", "s", " ", "c", "e", "n", "t", "e", "r", "e", "d", " ",
    "a", "n", "d", " ", "c", "l", "e", "a", "r", "l", "y", " ", "v", "i",
    "s", "i", "b", "l", "e", ",", " ", "n", "o", "t", " ", "a", " ", "m",
    "i", "r", "r", "o", "r", " ", "s", "e", "l", "f", "i", "e", ",", " ",
    "p", "h", "o", "n", "e", " ", "h", "e", "l", "d", " ", "a", "t", " ",
    "a", "r", "m", "'", "s", " ", "l", "e", "n", "g", "t", "h", ",", " ",
    "f", "a", "c", "e", " ", "f", "u", "l", "l", "y", " ", "v", "i", "s",
    "i", "b", "l", "e">>

StatedPrompt(m, t) ==
  IF m = "direct"
    THEN StatedDirectHead \o t \o StatedDirectTail
    ELSE StatedMirrorHead \o t \o StatedMirrorTail

\* C8: the constructed prompt is the stated template of the mode in force
\* with the user context interpolated verbatim.
C8_PromptIsStatedTemplate ==
  (step = "request" /\ MODE \in {"mirror", "direct"}) =>
    GEN_PROMPT = StatedPrompt(MODE, USER_CONTEXT)

\* the media value sendViaOpenClaw was called with
MessageMedia(r) ==
  IF "media" \in DOMAIN cfg[r] THEN cfg[r].media ELSE media[r]

\* C11: once sendViaOpenClaw has started its transport, the run has written a
\* temp file exactly if the media starts with "data:", on either transport;
\* a media value that does not start with "data:" reached the transport
\* unchanged; and the HTTP body's media field is the media value the
\* function was called with, never the temp file's path.
C11_TempFileIffDataUrl ==
  \A r \in Runs :
    (cfg[r].script = "ts" /\ sent[r] # NotSent) =>
      /\ media[r] = MessageMedia(r)
      /\ FilesOf(r) # {} <=> MessageMedia(r).scheme = "data"
      /\ tempFile[r] # NoFile <=> MessageMedia(r).scheme = "data"
      /\ MessageMedia(r).scheme # "data" => sent[r].arg = MessageMedia(r)
      /\ sent[r].via = "http" => sent[r].arg = MessageMedia(r)
      /\ (sent[r].via = "cli" /\ MessageMedia(r).scheme = "data") =>
           sent[r].arg = tempFile[r]

\* C11 witness: a direct call with a data URL on the HTTP transport has
\* written its temp file and posted the data URL itself.
C11_Witness ==
  \E r \in Runs :
    /\ "entry" \in DOMAIN cfg[r]
    /\ sent[r].via = "http"
    /\ cfg[r].media.scheme = "data"
    /\ sent[r].arg = cfg[r].media
    /\ tempFile[r] \in DOMAIN fs
    /\ fs[tempFile[r]].state = "closed"

====
